---- MODULE Spec2Model ----
(***************************************************************************)
(* PaperMap page (frontend/src/app/page.tsx): the graph builder             *)
(* buildGraphData, the filteredGraphData view and the handleSearch          *)
(* coordinator of the Home component.                                       *)
(*                                                                          *)
(* Specifications:                                                          *)
(*   SpecBuild    buildGraphData as a pure function: Init draws its four    *)
(*                arguments from bounded sets, Build applies it.            *)
(*   SpecDiff     the membership diff of the context dock as a pure         *)
(*                function: Init draws the two snapshots, Diff applies it.  *)
(*   Spec         the Home component: its React state, the handleSearch     *)
(*                coroutine, the filter controls and the graph library's    *)
(*                callbacks.                                                *)
(*   SpecLive     Spec with the timer firing and the search call settling.  *)
(*   SpecSession  Home with node hover, the context dock and the chat.      *)
(*   SpecDock     Home with the context dock and the parse jobs it starts,  *)
(*                followed through submission and polling.                  *)
(***************************************************************************)
EXTENDS Integers, Sequences, FiniteSets, TLC

VARIABLES
    \* ---- SpecBuild: one call of buildGraphData
    args,              \* [papers, categories, citationLinks, maxCitations]
    ret,               \* the returned GraphData (meaningful once bpc = "built")
    bpc,               \* "input" | "built"
    \* ---- SpecDiff: one diff of two membership snapshots
    membership,        \* [previous, current], two lists of paper ids
    diff,              \* [added, removed] once computed, or null
    \* ---- Spec: the state of Home (page.tsx:183-198)
    query,             \* useState(""), as a sequence of characters
    isLoading,         \* useState(false)
    loadingStatus,     \* useState("")
    graphData,         \* useState<GraphData | null>(null)
    papers,            \* useState<Paper[]>([])
    categories,        \* useState<Category[]>([])
    expandedQueries,   \* useState<string[]>([])
    hoveredNode,       \* useState<GraphNode | null>(null)
    maxCitations,      \* useState(0)
    dateFilter,        \* useState<string>("all")
    visibleClusters,   \* useState<Set<number>>(new Set())
    pc,                \* position of the handleSearch coroutine
    requests,          \* searchPapers calls made by the latest handleSearch
    contextPapers,     \* context set of the dock (ids, in drop order)
    chatMessages,      \* chat transcript, a list of [role, text]
    chatPending,       \* chat requests in flight
    lastSend,          \* outcome of the latest user message: "accepted" | "refused", or null
    parseJobs,         \* per paper id, the parse jobs submitted for it, oldest first
    parsingPapers,     \* the "parsing" set
    parsedPapers,      \* the "parsed" set
    lastDrop           \* the latest release over the dock: [added, submitted], or null

diffVars == <<membership, diff>>
buildVars == <<args, ret, bpc, membership, diff>>
jobVars == <<parseJobs, parsingPapers, parsedPapers>>
dockVars == <<contextPapers, chatMessages, chatPending, lastSend, parseJobs,
              parsingPapers, parsedPapers, lastDrop>>
pageVars == <<query, isLoading, loadingStatus, graphData, papers, categories,
              expandedQueries, hoveredNode, maxCitations, dateFilter,
              visibleClusters, pc, requests, contextPapers, chatMessages,
              chatPending, lastSend, parseJobs, parsingPapers, parsedPapers, lastDrop>>
vars == <<args, ret, bpc, membership, diff, query, isLoading, loadingStatus, graphData, papers,
          categories, expandedQueries, hoveredNode, maxCitations, dateFilter,
          visibleClusters, pc, requests, contextPapers, chatMessages,
          chatPending, lastSend, parseJobs, parsingPapers, parsedPapers, lastDrop>>

(***************************************************************************)
(* Bounds of the model.                                                     *)
(***************************************************************************)
NumPapers == 3           \* papers of a response, ids 1..NumPapers
NumClusters == 2         \* cluster ids the category table may list
MaxNeighborEntries == 2  \* neighbor ids over all the papers of a response
MaxCitationLinks == 2    \* citation records of a response
MaxCitationCount == 2    \* largest citation_count of a paper

(***************************************************************************)
(* Values.  A nullable value v | null is <<v>> | <<>>.                      *)
(***************************************************************************)
Null == <<>>
Some(v) == <<v>>
IsNull(o) == o = <<>>
Val(o) == o[1]

PaperIds == 1..NumPapers
\* NumClusters + 1 is a cluster id no category table of the model lists.
ClusterIds == 1..(NumClusters + 1)

Range(s) == {s[i] : i \in DOMAIN s}

RECURSIVE SeqsUpTo(_, _)
\* the sequences over S of length at most n
SeqsUpTo(S, n) ==
    IF n = 0 THEN {<<>>}
    ELSE LET shorter == SeqsUpTo(S, n - 1)
         IN  shorter \cup {Append(s, e) : s \in {t \in shorter : Len(t) = n - 1}, e \in S}

RECURSIVE MaxOf(_)
MaxOf(S) == IF S = {} THEN 0
            ELSE LET e == CHOOSE v \in S : TRUE
                     m == MaxOf(S \ {e})
                 IN  IF e > m THEN e ELSE m

(***************************************************************************)
(* Numbers that are not integers.  citation_count / maxCitations is kept    *)
(* as the fraction num/den, den > 0.                                        *)
(***************************************************************************)
Frac(n, d) == [num |-> n, den |-> d]
FracLeq(f, g) == f.num * g.den <= g.num * f.den
\* Math.min(1, f)
MathMin1(f) == IF FracLeq(Frac(1, 1), f) THEN Frac(1, 1) ELSE f

(***************************************************************************)
(* buildGraphData (page.tsx:114-170)                                        *)
(***************************************************************************)
scale == 600
FallbackColor == "#666"
UnknownName == "Unknown"

\* new Map(categories.map((c) => [c.id, c.color])).get(key), key a nullable
\* cluster id: the last entry with that id wins; undefined (Null) when there
\* is none.
MapGet(cats, key, field) ==
    LET hits == {i \in DOMAIN cats : Some(cats[i].id) = key}
    IN  IF hits = {} THEN Null
        ELSE Some(cats[CHOOSE i \in hits : \A j \in hits : j <= i][field])

\* a || b on strings: b when a is null, undefined or ""
OrElse(a, b) == IF IsNull(a) \/ a = Some("") THEN b ELSE a

PulseIntensityNoGuard(citation_count, maxCit) ==
    MathMin1(Frac(citation_count, maxCit))

\* maxCitations > 0 ? Math.min(1, p.citation_count / maxCitations) : 0
PulseIntensity(citation_count, maxCit) ==
    IF maxCit > 0 THEN MathMin1(Frac(citation_count, maxCit)) ELSE Frac(0, 1)

HasCoordinateTruthy(p) == ~IsNull(p.x) /\ ~IsNull(p.y) /\ Val(p.x) # 0 /\ Val(p.y) # 0

\* (p) => p.x !== null && p.y !== null
HasCoordinate(p) == ~IsNull(p.x) /\ ~IsNull(p.y)

ClusterNameFromTableOnly(p, cats) ==
    Val(OrElse(MapGet(cats, p.cluster, "name"), Some(UnknownName)))

\* p.cluster_name || nameMap.get(p.cluster!) || "Unknown"
ClusterName(p, cats) ==
    Val(OrElse(OrElse(p.cluster_name, MapGet(cats, p.cluster, "name")),
               Some(UnknownName)))

\* colorMap.get(p.cluster!) || "#666"
ClusterColor(p, cats) ==
    Val(OrElse(MapGet(cats, p.cluster, "color"), Some(FallbackColor)))

\* the object literal of .map((p) => ({...}))
MakeNode(p, cats, maxCit) ==
    [id |-> p.arxiv_id,
     published |-> p.published,
     cluster |-> p.cluster,
     cluster_name |-> ClusterName(p, cats),
     color |-> ClusterColor(p, cats),
     x |-> Val(p.x) * scale,
     y |-> Val(p.y) * scale,
     citation_count |-> p.citation_count,
     pulse_intensity |-> PulseIntensity(p.citation_count, maxCit)]

RECURSIVE BuildNodes(_, _, _)
\* papers.filter(...).map(...)
BuildNodes(ps, cats, maxCit) ==
    IF ps = <<>> THEN <<>>
    ELSE IF HasCoordinate(Head(ps))
         THEN <<MakeNode(Head(ps), cats, maxCit)>> \o BuildNodes(Tail(ps), cats, maxCit)
         ELSE BuildNodes(Tail(ps), cats, maxCit)

\* a link endpoint is a raw id (string) or, once the graph library has
\* resolved it, the node object itself
RawEnd(id) == [kind |-> "string", id |-> id]
NodeEnd(n) == [kind |-> "node", node |-> n]
\* typeof l.source === 'string' ? l.source : l.source.id
EndId(e) == IF e.kind = "string" THEN e.id ELSE e.node.id

MakeLink(s, t, cit) == [source |-> RawEnd(s), target |-> RawEnd(t), isCitation |-> cit]

LinkExistsDirected(links, a, b) ==
    \E i \in DOMAIN links : EndId(links[i].source) = a /\ EndId(links[i].target) = b

\* links.find((l) => (src = a && tgt = b) || (src = b && tgt = a)) !== undefined
LinkExists(links, a, b) ==
    \E i \in DOMAIN links :
        \/ EndId(links[i].source) = a /\ EndId(links[i].target) = b
        \/ EndId(links[i].source) = b /\ EndId(links[i].target) = a

RECURSIVE AddNeighborLinksPrepending(_, _, _, _)
AddNeighborLinksPrepending(links, paperId, neighbors, nodeIds) ==
    IF neighbors = <<>> THEN links
    ELSE LET neighborId == Head(neighbors)
             next == IF neighborId \notin nodeIds THEN links
                     ELSE IF LinkExists(links, paperId, neighborId) THEN links
                     ELSE <<MakeLink(paperId, neighborId, FALSE)>> \o links
         IN  AddNeighborLinksPrepending(next, paperId, Tail(neighbors), nodeIds)

RECURSIVE AddNeighborLinks(_, _, _, _)
\* paper.neighbors.forEach((neighborId) => {...}) for one paper
AddNeighborLinks(links, paperId, neighbors, nodeIds) ==
    IF neighbors = <<>> THEN links
    ELSE LET neighborId == Head(neighbors)
             next == IF neighborId \notin nodeIds THEN links
                     ELSE IF LinkExists(links, paperId, neighborId) THEN links
                     ELSE Append(links, MakeLink(paperId, neighborId, FALSE))
         IN  AddNeighborLinks(next, paperId, Tail(neighbors), nodeIds)

RECURSIVE AddSimilarityLinks(_, _, _)
\* papers.forEach((paper) => { if (!paper.neighbors) return; ... })
AddSimilarityLinks(links, ps, nodeIds) ==
    IF ps = <<>> THEN links
    ELSE LET paper == Head(ps)
             next == IF IsNull(paper.neighbors) THEN links
                     ELSE AddNeighborLinks(links, paper.arxiv_id, Val(paper.neighbors), nodeIds)
         IN  AddSimilarityLinks(next, Tail(ps), nodeIds)

CitationAcceptedTargetOnly(cl, nodeIds) == cl.target \in nodeIds

\* nodeIds.has(cl.source) && nodeIds.has(cl.target)
CitationAccepted(cl, nodeIds) == cl.source \in nodeIds /\ cl.target \in nodeIds

RECURSIVE AddCitationLinks(_, _, _)
\* citationLinks.forEach((cl) => {...})
AddCitationLinks(links, cls, nodeIds) ==
    IF cls = <<>> THEN links
    ELSE LET cl == Head(cls)
             next == IF CitationAccepted(cl, nodeIds)
                     THEN Append(links, MakeLink(cl.source, cl.target, TRUE))
                     ELSE links
         IN  AddCitationLinks(next, Tail(cls), nodeIds)

buildGraphData(ps, cats, citationLinks, maxCit) ==
    LET nodes == BuildNodes(ps, cats, maxCit)
        nodeIds == {nodes[i].id : i \in DOMAIN nodes}
        similarity == AddSimilarityLinks(<<>>, ps, nodeIds)
        links == AddCitationLinks(similarity, citationLinks, nodeIds)
    IN  [nodes |-> nodes, links |-> links]

(***************************************************************************)
(* The arguments buildGraphData is applied to.  A search response lists     *)
(* papers 1..NumPapers in that order (ids are unique, spec section 3); four *)
(* families vary one aspect of the response each and keep the rest at the   *)
(* defaults below.  The attribute families vary papers 1 and 2 only.        *)
(***************************************************************************)
DefaultPaper(i) ==
    [arxiv_id |-> i, x |-> Some(i), y |-> Some(1), cluster |-> Some(1),
     cluster_name |-> Null, neighbors |-> Null, citation_count |-> 0,
     published |-> "2024"]

Category(i, name) == [id |-> i, name |-> name, color |-> "color-" \o ToString(i)]

RECURSIVE CategoryTable(_, _, _)
\* the categories of ids S, ascending from id i; blank: category 1 has name ""
CategoryTable(S, i, blank) ==
    IF i > NumClusters THEN <<>>
    ELSE (IF i \in S
          THEN <<Category(i, IF blank /\ i = 1 THEN "" ELSE "name-" \o ToString(i))>>
          ELSE <<>>) \o CategoryTable(S, i + 1, blank)

DefaultCategories == CategoryTable(1..NumClusters, 1, FALSE)

CategoryTables ==
    {CategoryTable(S, 1, FALSE) : S \in SUBSET (1..NumClusters)}
        \cup {CategoryTable(1..NumClusters, 1, TRUE)}

PapersOf(f) == [i \in PaperIds |-> f[i]]

MaxCitationCountOf(ps) == MaxOf({ps[i].citation_count : i \in DOMAIN ps})

MakeArgs(ps, cats, cls) ==
    [papers |-> ps, categories |-> cats, citationLinks |-> cls,
     maxCitations |-> MaxCitationCountOf(ps)]

RECURSIVE NeighborTables(_, _)
\* one neighbor list per paper n, n-1, .., 1, with at most budget entries in all
NeighborTables(n, budget) ==
    IF n = 0 THEN {<<>>}
    ELSE UNION {{Append(t, l) : t \in NeighborTables(n - 1, budget - Len(l))} :
                l \in SeqsUpTo(PaperIds, budget)}

\* the neighbor lists vary, and at most one paper lacks its coordinate; no
\* citation records
SimilarityArgs ==
    {MakeArgs(PapersOf([i \in PaperIds |->
                 [DefaultPaper(i) EXCEPT
                    !.x = IF i \in H THEN Some(i) ELSE Null,
                    !.y = IF i \in H THEN Some(1) ELSE Null,
                    !.neighbors = IF t[i] = <<>> /\ emptyAsNull THEN Null ELSE Some(t[i])]]),
              DefaultCategories, <<>>) :
        H \in {PaperIds} \cup {PaperIds \ {i} : i \in PaperIds},
        t \in NeighborTables(NumPapers, MaxNeighborEntries),
        emptyAsNull \in BOOLEAN}

CitationRecords == [source : PaperIds, target : PaperIds]

\* citation records vary; paper 1 has a coordinate or not; papers 1 and 2 are
\* mutual neighbors or no paper has neighbors
CitationArgs ==
    {MakeArgs(PapersOf([i \in PaperIds |->
                 [DefaultPaper(i) EXCEPT
                    !.x = IF i = 1 /\ ~firstHasCoordinate THEN Null ELSE Some(i),
                    !.y = IF i = 1 /\ ~firstHasCoordinate THEN Null ELSE Some(1),
                    !.neighbors = IF mutual /\ i \in {1, 2} THEN Some(<<3 - i>>) ELSE Null]]),
              DefaultCategories, cls) :
        firstHasCoordinate \in BOOLEAN,
        cls \in SeqsUpTo(CitationRecords, MaxCitationLinks),
        mutual \in BOOLEAN}

\* the papers whose attributes the attribute families vary
ProbeIds == {1, 2}

CoordinateShapes ==
    [x : {Null, Some(0), Some(2)}, y : {Null, Some(1)}, cc : 0..MaxCitationCount]

\* each coordinate and the citation counts vary
CoordinateArgs ==
    {MakeArgs(PapersOf([i \in PaperIds |->
                 IF i \in ProbeIds
                 THEN [DefaultPaper(i) EXCEPT
                         !.x = c[i].x, !.y = c[i].y, !.citation_count = c[i].cc]
                 ELSE DefaultPaper(i)]),
              DefaultCategories, <<>>) :
        c \in [ProbeIds -> CoordinateShapes]}

ClusterShapes ==
    [cluster : {Null} \cup {Some(k) : k \in ClusterIds},
     cluster_name : {Null, Some(""), Some("own")}]

\* the papers' clusters and cluster names and the category table vary
ClusterArgs ==
    {MakeArgs(PapersOf([i \in PaperIds |->
                 IF i \in ProbeIds
                 THEN [DefaultPaper(i) EXCEPT
                         !.cluster = c[i].cluster, !.cluster_name = c[i].cluster_name]
                 ELSE DefaultPaper(i)]),
              cats, <<>>) :
        c \in [ProbeIds -> ClusterShapes], cats \in CategoryTables}

NoGraph == [nodes |-> <<>>, links |-> <<>>]

NoMembership == [previous |-> <<>>, current |-> <<>>]
DiffIdle == membership = NoMembership /\ diff = Null

PageIdle ==
    /\ query = <<>> /\ isLoading = FALSE /\ loadingStatus = ""
    /\ graphData = Null /\ papers = <<>> /\ categories = <<>>
    /\ expandedQueries = <<>> /\ hoveredNode = Null /\ maxCitations = 0
    /\ dateFilter = "all" /\ visibleClusters = {} /\ pc = "idle"
    /\ requests = 0
    /\ contextPapers = <<>> /\ chatMessages = <<>>
    /\ chatPending = 0 /\ lastSend = Null
    /\ parseJobs = [id \in PaperIds |-> <<>>]
    /\ parsingPapers = {} /\ parsedPapers = {}
    /\ lastDrop = Null

InitBuild ==
    /\ args \in SimilarityArgs \cup CitationArgs \cup CoordinateArgs \cup ClusterArgs
    /\ ret = NoGraph
    /\ bpc = "input"
    /\ PageIdle
    /\ DiffIdle

\* the call buildGraphData(papers, categories, citationLinks, maxCitations)
Build ==
    /\ bpc = "input"
    /\ ret' = buildGraphData(args.papers, args.categories, args.citationLinks,
                             args.maxCitations)
    /\ bpc' = "built"
    /\ UNCHANGED <<args, pageVars, diffVars>>

NextBuild == Build

SpecBuild == InitBuild /\ [][NextBuild]_vars

(***************************************************************************)
(* The membership diff of the context dock (consumers of a membership      *)
(* change compare the current list against the previous one).              *)
(***************************************************************************)
\* a membership list: paper ids in drop order, no id twice
Memberships ==
    {s \in SeqsUpTo(PaperIds, NumPapers) :
        \A i, j \in DOMAIN s : s[i] = s[j] => i = j}

MembershipDiffAddedOnly(previous, current) ==
    [added   |-> SelectSeq(current, LAMBDA id : id \notin Range(previous)),
     removed |-> <<>>]

\* added: in current and not in previous; removed: in previous and not in current
MembershipDiff(previous, current) ==
    [added   |-> SelectSeq(current, LAMBDA id : id \notin Range(previous)),
     removed |-> SelectSeq(previous, LAMBDA id : id \notin Range(current))]

InitDiff ==
    /\ membership \in [previous : Memberships, current : Memberships]
    /\ diff = Null
    /\ args = MakeArgs(<<>>, <<>>, <<>>) /\ ret = NoGraph /\ bpc = "input"
    /\ PageIdle

\* a consumer of a membership change diffs the two snapshots
Diff ==
    /\ diff = Null
    /\ diff' = Some(MembershipDiff(membership.previous, membership.current))
    /\ UNCHANGED <<membership, args, ret, bpc, pageVars>>

NextDiff == Diff

SpecDiff == InitDiff /\ [][NextDiff]_vars

(***************************************************************************)
(* Home (page.tsx:182-339, 1040-1127): dates, the filtered view, the        *)
(* handleSearch coroutine and the controls.                                 *)
(***************************************************************************)
\* const now = new Date(), in years
Now == 2026

\* new Date(s).getTime(): the published strings of the model that parse, in
\* years; any other string gives an Invalid Date, whose time value NaN is Null
DateTable == [s \in {"2020", "2024", "2025", "2026"} |->
                 CASE s = "2020" -> 2020 [] s = "2024" -> 2024
                   [] s = "2025" -> 2025 [] s = "2026" -> 2026]
NewDate(s) == IF s \in DOMAIN DateTable THEN Some(DateTable[s]) ELSE Null

DateBeforeOrAt(a, b) == ~IsNull(a) /\ ~IsNull(b) /\ Val(a) <= Val(b)

\* a < b on Date objects: false when either time value is NaN
DateBefore(a, b) == ~IsNull(a) /\ ~IsNull(b) /\ Val(a) < Val(b)

DateFilters == {"all", "5y", "2y", "1y"}

\* dateFilterCutoff: new Date(now.getFullYear() - k, now.getMonth(), now.getDate())
dateFilterCutoff(df) ==
    CASE df = "1y" -> Some(Now - 1)
      [] df = "2y" -> Some(Now - 2)
      [] df = "5y" -> Some(Now - 5)
      [] OTHER -> Null

\* papers.find((p) => p.arxiv_id === id): the first match, or undefined
FindPaper(ps, id) ==
    LET hits == {i \in DOMAIN ps : ps[i].arxiv_id = id}
    IN  IF hits = {} THEN Null ELSE Some(ps[CHOOSE i \in hits : \A j \in hits : i <= j])

\* the predicate of graphData.nodes.filter (page.tsx:234-244)
NodeVisible(node, vc, cutoff, ps) ==
    IF ~(\E c \in vc : Some(c) = node.cluster) THEN FALSE
    ELSE IF ~IsNull(cutoff)
              /\ ~IsNull(FindPaper(ps, node.id))
              /\ DateBefore(NewDate(Val(FindPaper(ps, node.id)).published), cutoff)
         THEN FALSE
         ELSE TRUE

LinkVisibleEither(link, nodeIds) ==
    EndId(link.source) \in nodeIds \/ EndId(link.target) \in nodeIds

\* the predicate of graphData.links.filter (page.tsx:247-251)
LinkVisible(link, nodeIds) ==
    EndId(link.source) \in nodeIds /\ EndId(link.target) \in nodeIds

\* the body of the filteredGraphData memo for a non-null graph
FilterGraph(g, vc, cutoff, ps) ==
    LET KeepNode(n) == NodeVisible(n, vc, cutoff, ps)
        filteredNodes == SelectSeq(g.nodes, KeepNode)
        nodeIds == {filteredNodes[i].id : i \in DOMAIN filteredNodes}
        KeepLink(l) == LinkVisible(l, nodeIds)
    IN  [nodes |-> filteredNodes, links |-> SelectSeq(g.links, KeepLink)]

\* filteredGraphData: null when graphData is null
filteredGraphData ==
    IF IsNull(graphData) THEN Null
    ELSE Some(FilterGraph(Val(graphData), visibleClusters,
                          dateFilterCutoff(dateFilter), papers))

\* <ForceGraph2D graphData={filteredGraphData}> is mounted
GraphShown == ~IsNull(filteredGraphData) /\ ~isLoading

\* the text of the loading overlay, the only place loadingStatus is rendered
\* (page.tsx:800-831); Null when the overlay is not rendered
StatusShown == IF isLoading THEN Some(loadingStatus) ELSE Null

(***************************************************************************)
(* Search responses                                                         *)
(***************************************************************************)
ClusterProfiles == {"one", "split", "unlisted", "null"}
ProfileCluster(prof, i) ==
    CASE prof = "one" -> Some(1)
      [] prof = "split" -> IF i = 1 THEN Some(1) ELSE Some(2)
      [] prof = "unlisted" -> Some(((i - 1) % (NumClusters + 1)) + 1)
      [] prof = "null" -> IF i = NumPapers THEN Null ELSE Some(((i - 1) % NumClusters) + 1)

\* the category table of a response: the profile "one" lists cluster 1 only
ProfileCategories(prof) ==
    IF prof = "one" THEN CategoryTable({1}, 1, FALSE) ELSE DefaultCategories

DateProfiles == {"recent", "spread", "unparsed"}
ProfilePublished(prof, i) ==
    CASE prof = "recent" -> "2026"
      [] prof = "spread" -> IF i = 1 THEN "2020" ELSE IF i = 2 THEN "2024" ELSE "2025"
      [] prof = "unparsed" -> IF i = 1 THEN "" ELSE IF i = 2 THEN "2020" ELSE "2026"

\* the papers form a ring of neighbors, the last paper cites the first, and
\* the last paper has a coordinate or not
ResponsePaper(i, cp, dp, lastHasCoordinate) ==
    [DefaultPaper(i) EXCEPT
        !.cluster = ProfileCluster(cp, i),
        !.published = ProfilePublished(dp, i),
        !.citation_count = i % (MaxCitationCount + 1),
        !.neighbors = Some(<<(i % NumPapers) + 1, ((i + 1) % NumPapers) + 1>>),
        !.x = IF i = NumPapers /\ ~lastHasCoordinate THEN Null ELSE Some(i),
        !.y = IF i = NumPapers /\ ~lastHasCoordinate THEN Null ELSE Some(1)]

Response(cp, dp, lastHasCoordinate) ==
    LET ps == PapersOf([i \in PaperIds |-> ResponsePaper(i, cp, dp, lastHasCoordinate)])
    IN  [papers |-> ps,
         categories |-> ProfileCategories(cp),
         citation_links |-> <<[source |-> NumPapers, target |-> 1]>>,
         expanded_queries |-> <<"expanded">>,
         max_citations |-> MaxCitationCountOf(ps)]

EmptyResponse ==
    [papers |-> <<>>, categories |-> <<>>, citation_links |-> <<>>,
     expanded_queries |-> <<>>, max_citations |-> 0]

Responses ==
    {Response(cp, dp, c) : cp \in ClusterProfiles, dp \in DateProfiles, c \in BOOLEAN}
        \cup {EmptyResponse}

SessionResponses ==
    {Response("split", "recent", TRUE), Response("one", "spread", TRUE), EmptyResponse}

(***************************************************************************)
(* The query input                                                          *)
(***************************************************************************)
MaxQueryLen == 1
QueryInputs == SeqsUpTo({" ", "a"}, MaxQueryLen)

RECURSIVE TrimStart(_)
TrimStart(q) == IF q # <<>> /\ Head(q) = " " THEN TrimStart(Tail(q)) ELSE q
RECURSIVE TrimEnd(_)
TrimEnd(q) == IF q # <<>> /\ q[Len(q)] = " " THEN TrimEnd(SubSeq(q, 1, Len(q) - 1)) ELSE q
\* query.trim()
Trim(q) == TrimEnd(TrimStart(q))

(***************************************************************************)
(* Actions of Home                                                          *)
(***************************************************************************)
InitPage ==
    /\ PageIdle
    /\ args = MakeArgs(<<>>, <<>>, <<>>) /\ ret = NoGraph /\ bpc = "input"
    /\ DiffIdle

\* onChange={(e) => setQuery(e.target.value)}; the input is disabled while loading
SetQuery(q) ==
    /\ ~isLoading
    /\ query' = q
    /\ UNCHANGED <<isLoading, loadingStatus, graphData, papers, categories,
                   expandedQueries, hoveredNode, maxCitations, dateFilter,
                   visibleClusters, pc, dockVars, buildVars, requests>>

HandleSearchKeepingDateFilter ==
    /\ ~(Trim(query) = <<>> \/ isLoading)
    /\ isLoading' = TRUE
    /\ graphData' = Null
    /\ papers' = <<>>
    /\ categories' = <<>>
    /\ expandedQueries' = <<>>
    /\ loadingStatus' = "Searching the web..."
    /\ pc' = "sleeping"
    /\ requests' = 0
    /\ UNCHANGED <<query, hoveredNode, maxCitations, visibleClusters, dateFilter,
                   dockVars, buildVars>>

HandleSearchUnguarded ==
    /\ isLoading' = TRUE
    /\ graphData' = Null
    /\ papers' = <<>>
    /\ categories' = <<>>
    /\ expandedQueries' = <<>>
    /\ dateFilter' = "all"
    /\ loadingStatus' = "Searching the web..."
    /\ pc' = "sleeping"
    /\ requests' = 0
    /\ UNCHANGED <<query, hoveredNode, maxCitations, visibleClusters,
                   dockVars, buildVars>>

HandleSearchKeepingGraph ==
    /\ ~(Trim(query) = <<>> \/ isLoading)
    /\ isLoading' = TRUE
    /\ dateFilter' = "all"
    /\ loadingStatus' = "Searching the web..."
    /\ pc' = "sleeping"
    /\ requests' = 0
    /\ UNCHANGED <<query, graphData, papers, categories, expandedQueries,
                   hoveredNode, maxCitations, visibleClusters, dockVars, buildVars>>

\* handleSearch up to its first await (page.tsx:273-285)
HandleSearch ==
    /\ ~(Trim(query) = <<>> \/ isLoading)
    /\ isLoading' = TRUE
    /\ graphData' = Null
    /\ papers' = <<>>
    /\ categories' = <<>>
    /\ expandedQueries' = <<>>
    /\ dateFilter' = "all"
    /\ loadingStatus' = "Searching the web..."
    /\ pc' = "sleeping"
    /\ requests' = 0
    /\ UNCHANGED <<query, hoveredNode, maxCitations, visibleClusters,
                   dockVars, buildVars>>

\* the 300 ms timer fires; searchPapers(query, paperCount) is called (286-288)
SearchRequested ==
    /\ pc = "sleeping"
    /\ loadingStatus' = "Expanding search queries..."
    /\ pc' = "searching"
    /\ requests' = requests + 1
    /\ UNCHANGED <<query, isLoading, graphData, papers, categories,
                   expandedQueries, hoveredNode, maxCitations, dateFilter,
                   visibleClusters, dockVars, buildVars>>

SearchResolvedKeepingPapers(result) ==
    /\ pc = "searching"
    /\ IF Len(result.papers) = 0
       THEN /\ loadingStatus' = "No papers found"
            /\ UNCHANGED <<expandedQueries, papers, categories, maxCitations,
                           visibleClusters, graphData>>
       ELSE /\ expandedQueries' = result.expanded_queries
            /\ categories' = result.categories
            /\ maxCitations' = result.max_citations
            /\ visibleClusters' = {result.categories[i].id : i \in DOMAIN result.categories}
            /\ graphData' = Some(buildGraphData(result.papers, result.categories,
                                                 result.citation_links, result.max_citations))
            /\ loadingStatus' = ""
            /\ UNCHANGED papers
    /\ isLoading' = FALSE
    /\ pc' = "idle"
    /\ UNCHANGED <<query, hoveredNode, dateFilter, dockVars, buildVars, requests>>

SearchResolvedKeepingClusters(result) ==
    /\ pc = "searching"
    /\ IF Len(result.papers) = 0
       THEN /\ loadingStatus' = "No papers found"
            /\ UNCHANGED <<expandedQueries, papers, categories, maxCitations,
                           visibleClusters, graphData>>
       ELSE /\ expandedQueries' = result.expanded_queries
            /\ papers' = result.papers
            /\ categories' = result.categories
            /\ maxCitations' = result.max_citations
            /\ graphData' = Some(buildGraphData(result.papers, result.categories,
                                                 result.citation_links, result.max_citations))
            /\ loadingStatus' = ""
            /\ UNCHANGED visibleClusters
    /\ isLoading' = FALSE
    /\ pc' = "idle"
    /\ UNCHANGED <<query, hoveredNode, dateFilter, dockVars, buildVars, requests>>

\* searchPapers resolves with result (290-310, 336-338)
SearchResolved(result) ==
    /\ pc = "searching"
    /\ IF Len(result.papers) = 0
       THEN /\ loadingStatus' = "No papers found"
            /\ UNCHANGED <<expandedQueries, papers, categories, maxCitations,
                           visibleClusters, graphData>>
       ELSE /\ expandedQueries' = result.expanded_queries
            /\ papers' = result.papers
            /\ categories' = result.categories
            /\ maxCitations' = result.max_citations
            /\ visibleClusters' = {result.categories[i].id : i \in DOMAIN result.categories}
            /\ graphData' = Some(buildGraphData(result.papers, result.categories,
                                                 result.citation_links, result.max_citations))
            /\ loadingStatus' = ""
    /\ isLoading' = FALSE
    /\ pc' = "idle"
    /\ UNCHANGED <<query, hoveredNode, dateFilter, dockVars, buildVars, requests>>

SearchRejectedStuck ==
    /\ pc = "searching"
    /\ loadingStatus' = "Search failed"
    /\ pc' = "idle"
    /\ UNCHANGED <<query, isLoading, graphData, papers, categories, expandedQueries,
                   hoveredNode, maxCitations, dateFilter, visibleClusters,
                   dockVars, buildVars, requests>>

\* searchPapers rejects: fetch fails or the status is not ok (104-106, 333-338)
SearchRejected ==
    /\ pc = "searching"
    /\ loadingStatus' = "Search failed"
    /\ isLoading' = FALSE
    /\ pc' = "idle"
    /\ UNCHANGED <<query, graphData, papers, categories, expandedQueries,
                   hoveredNode, maxCitations, dateFilter, visibleClusters,
                   dockVars, buildVars, requests>>

ToggleClusterPatchingGraph(id) ==
    /\ ~IsNull(graphData)
    /\ \E i \in DOMAIN categories : categories[i].id = id
    /\ visibleClusters' = IF id \in visibleClusters THEN visibleClusters \ {id}
                          ELSE visibleClusters \cup {id}
    /\ graphData' = Some(FilterGraph(Val(graphData), visibleClusters',
                                      dateFilterCutoff(dateFilter), papers))
    /\ UNCHANGED <<query, isLoading, loadingStatus, papers, categories,
                   expandedQueries, hoveredNode, maxCitations, dateFilter, pc,
                   dockVars, buildVars, requests>>

ToggledRemoveOnly(vc, id) == vc \ {id}

\* newSet after has/delete/add on a copy of visibleClusters (page.tsx:1119-1124)
Toggled(vc, id) == IF id \in vc THEN vc \ {id} ELSE vc \cup {id}

ToggleClusterUnlisted(id) ==
    /\ ~IsNull(graphData)
    /\ visibleClusters' = Toggled(visibleClusters, id)
    /\ UNCHANGED <<query, isLoading, loadingStatus, graphData, papers, categories,
                   expandedQueries, hoveredNode, maxCitations, dateFilter, pc,
                   dockVars, buildVars, requests>>

\* the checkbox of category id in the sidebar, rendered when graphData is set
\* (page.tsx:984, 1101-1127)
ToggleCluster(id) ==
    /\ ~IsNull(graphData)
    /\ \E i \in DOMAIN categories : categories[i].id = id
    /\ visibleClusters' = Toggled(visibleClusters, id)
    /\ UNCHANGED <<query, isLoading, loadingStatus, graphData, papers, categories,
                   expandedQueries, hoveredNode, maxCitations, dateFilter, pc,
                   dockVars, buildVars, requests>>

\* the radio buttons of the sidebar (page.tsx:1030-1061)
SetDateFilter(v) ==
    /\ ~IsNull(graphData)
    /\ dateFilter' = v
    /\ UNCHANGED <<query, isLoading, loadingStatus, graphData, papers, categories,
                   expandedQueries, hoveredNode, maxCitations, visibleClusters, pc,
                   dockVars, buildVars, requests>>

\* The force-graph library, given filteredGraphData, replaces the source and
\* target of each link it was handed by the node objects; the links of
\* filteredGraphData are the link objects of graphData (page.tsx:64-68, 877-880)
ResolveEnd(e, g) ==
    IF e.kind = "string" THEN NodeEnd(g.nodes[CHOOSE i \in DOMAIN g.nodes : g.nodes[i].id = e.id])
    ELSE e
GraphRendered ==
    /\ GraphShown
    /\ LET g == Val(graphData)
           shown == Val(filteredGraphData)
           ids == {shown.nodes[i].id : i \in DOMAIN shown.nodes}
       IN  graphData' = Some([g EXCEPT !.links =
               [i \in DOMAIN g.links |->
                   IF LinkVisible(g.links[i], ids)
                   THEN [g.links[i] EXCEPT !.source = ResolveEnd(@, g),
                                           !.target = ResolveEnd(@, g)]
                   ELSE g.links[i]]])
    /\ graphData' # graphData
    /\ UNCHANGED <<query, isLoading, loadingStatus, papers, categories,
                   expandedQueries, hoveredNode, maxCitations, dateFilter,
                   visibleClusters, pc, dockVars, buildVars, requests>>

\* handleNodeHover (page.tsx:341-343): the library reports the node under the
\* pointer, or null
HandleNodeHover(node) ==
    /\ GraphShown
    /\ \/ IsNull(node)
       \/ \E i \in DOMAIN Val(filteredGraphData).nodes :
              node = Some(Val(filteredGraphData).nodes[i])
    /\ hoveredNode' = node
    /\ UNCHANGED <<query, isLoading, loadingStatus, graphData, papers, categories,
                   expandedQueries, maxCitations, dateFilter, visibleClusters, pc,
                   dockVars, buildVars, requests>>

Next ==
    \/ \E q \in QueryInputs : SetQuery(q)
    \/ HandleSearch
    \/ SearchRequested
    \/ \E result \in Responses : SearchResolved(result)
    \/ SearchRejected
    \/ \E id \in 1..NumClusters : ToggleCluster(id)
    \/ \E v \in DateFilters : SetDateFilter(v)
    \/ GraphRendered

Spec == InitPage /\ [][Next]_vars

\* the promise of searchPapers settles
SearchSettled == SearchRejected \/ \E result \in Responses : SearchResolved(result)

\* Spec with the timer of line 285 firing and the search call settling
SpecLive == Spec /\ WF_vars(SearchRequested) /\ WF_vars(SearchSettled)

(***************************************************************************)
(* The context dock and the chat transcript (spec sections 4.3 and 4.5)     *)
(***************************************************************************)
MaxContextPapers == 2
MaxChatMessages == 2
MaxPollAttempts == 2     \* polls of one parse job before it gives up
MaxJobsPerPaper == 2     \* parse jobs submitted for one paper

(***************************************************************************)
(* Parse jobs (spec section 4.4).  A job is [status, polls, immediate]:     *)
(* status "submitted" while the submission is in flight, "polling" while    *)
(* the polling loop runs, "completed" and "failed" as polled or reported,   *)
(* "exhausted" once the loop has used its attempts; polls counts the poll   *)
(* calls made for the job; immediate tells that the submission itself       *)
(* reported the result as cached or completed.                              *)
(***************************************************************************)
NewJob == [status |-> "submitted", polls |-> 0, immediate |-> FALSE]
Live(job) == job.status \in {"submitted", "polling"}
LiveJobs(id) == {i \in DOMAIN parseJobs[id] : Live(parseJobs[id][i])}

ShouldSubmitAlways(id) == TRUE

\* step 1, the idempotency guard: nothing is submitted for a paper marked
\* completed or with a live job
ShouldSubmit(id) == id \notin parsedPapers /\ LiveJobs(id) = {}

\* step 2 for a paper that has entered the context set
StartParse(id) ==
    IF ShouldSubmit(id)
    THEN /\ Len(parseJobs[id]) < MaxJobsPerPaper
         /\ parseJobs' = [parseJobs EXCEPT ![id] = Append(@, NewJob)]
         /\ parsingPapers' = parsingPapers \cup {id}
         /\ UNCHANGED parsedPapers
    ELSE UNCHANGED jobVars

AddToContextAlways(ctx, id) == Append(ctx, id)

\* the context set with id added: unchanged when id is a member
AddToContext(ctx, id) == IF id \in Range(ctx) THEN ctx ELSE Append(ctx, id)

RECURSIVE AnnounceEach(_, _, _)
AnnounceEach(msgs, ids, text) ==
    IF ids = <<>> THEN msgs
    ELSE AnnounceEach(Append(msgs, [role |-> "assistant", text |-> text]), Tail(ids), text)

\* once the chat has started, a membership change is announced in the
\* transcript: one assistant-role entry per added and per removed paper
Announce(msgs, previous, current) ==
    IF msgs = <<>> THEN msgs
    ELSE LET d == MembershipDiff(previous, current)
         IN  AnnounceEach(AnnounceEach(msgs, d.added, "paper added"),
                          d.removed, "paper removed")

\* release of a dragged node over the dock: its id joins the context set
\* unless it is there already; a paper that has joined gets its parse job
DropOnDock(id) ==
    /\ GraphShown
    /\ \E i \in DOMAIN Val(filteredGraphData).nodes : Val(filteredGraphData).nodes[i].id = id
    /\ Len(contextPapers) < MaxContextPapers
    /\ Len(chatMessages) <= MaxChatMessages
    /\ contextPapers' = AddToContext(contextPapers, id)
    /\ chatMessages' = Announce(chatMessages, contextPapers, contextPapers')
    /\ IF id \in Range(contextPapers)
       THEN /\ lastDrop' = Some([added |-> FALSE, submitted |-> FALSE])
            /\ UNCHANGED jobVars
       ELSE /\ lastDrop' = Some([added |-> TRUE, submitted |-> ShouldSubmit(id)])
            /\ StartParse(id)
    /\ UNCHANGED <<query, isLoading, loadingStatus, graphData, papers, categories,
                   expandedQueries, hoveredNode, maxCitations, dateFilter,
                   visibleClusters, pc, requests, chatPending, lastSend, buildVars>>

\* the remove control of a context entry; a job of the paper is not cancelled
RemoveFromContext(id) ==
    /\ id \in Range(contextPapers)
    /\ Len(chatMessages) <= MaxChatMessages
    /\ contextPapers' = SelectSeq(contextPapers, LAMBDA e : e # id)
    /\ chatMessages' = Announce(chatMessages, contextPapers, contextPapers')
    /\ UNCHANGED <<query, isLoading, loadingStatus, graphData, papers, categories,
                   expandedQueries, hoveredNode, maxCitations, dateFilter,
                   visibleClusters, pc, requests, chatPending, lastSend, jobVars,
                   lastDrop, buildVars>>

SubmitResponses == {"cached", "completed", "job", "error"}
PollStatuses == {"processing", "completed", "failed"}

pageUnderJobs == <<query, isLoading, loadingStatus, graphData, papers, categories,
                   expandedQueries, hoveredNode, maxCitations, dateFilter,
                   visibleClusters, pc, requests, contextPapers, chatMessages,
                   chatPending, lastSend, lastDrop, buildVars>>

SubmitReturnsAlwaysPolling(id, resp) ==
    /\ parseJobs[id] # <<>>
    /\ LET k == Len(parseJobs[id])
           job == parseJobs[id][k]
       IN  /\ job.status = "submitted"
           /\ IF resp = "error"
              THEN /\ parseJobs' = [parseJobs EXCEPT ![id][k].status = "failed"]
                   /\ parsingPapers' = parsingPapers \ {id}
                   /\ UNCHANGED parsedPapers
              ELSE /\ parseJobs' = [parseJobs EXCEPT ![id][k] =
                          [job EXCEPT !.status = "polling",
                                      !.immediate = resp \in {"cached", "completed"}]]
                   /\ UNCHANGED <<parsingPapers, parsedPapers>>
    /\ UNCHANGED pageUnderJobs

\* steps 3 and 4: the submission of the job of paper id returns
SubmitReturns(id, resp) ==
    /\ parseJobs[id] # <<>>
    /\ LET k == Len(parseJobs[id])
           job == parseJobs[id][k]
       IN  /\ job.status = "submitted"
           /\ CASE resp \in {"cached", "completed"} ->
                     /\ parseJobs' = [parseJobs EXCEPT ![id][k] =
                            [job EXCEPT !.status = "completed", !.immediate = TRUE]]
                     /\ parsedPapers' = parsedPapers \cup {id}
                     /\ parsingPapers' = parsingPapers \ {id}
                [] resp = "job" ->
                     /\ parseJobs' = [parseJobs EXCEPT ![id][k].status = "polling"]
                     /\ UNCHANGED <<parsingPapers, parsedPapers>>
                [] resp = "error" ->
                     /\ parseJobs' = [parseJobs EXCEPT ![id][k].status = "failed"]
                     /\ parsingPapers' = parsingPapers \ {id}
                     /\ UNCHANGED parsedPapers
    /\ UNCHANGED pageUnderJobs

PollReturnsKeepingParsing(id, st) ==
    /\ parseJobs[id] # <<>>
    /\ LET k == Len(parseJobs[id])
           job == parseJobs[id][k]
       IN  /\ job.status = "polling"
           /\ job.polls < MaxPollAttempts
           /\ CASE st = "processing" ->
                     /\ parseJobs' = [parseJobs EXCEPT ![id][k] =
                            [job EXCEPT !.polls = @ + 1,
                                        !.status = IF job.polls + 1 = MaxPollAttempts
                                                   THEN "exhausted" ELSE "polling"]]
                     /\ UNCHANGED <<parsingPapers, parsedPapers>>
                [] st = "completed" ->
                     /\ parseJobs' = [parseJobs EXCEPT ![id][k] =
                            [job EXCEPT !.polls = @ + 1, !.status = "completed"]]
                     /\ parsedPapers' = parsedPapers \cup {id}
                     /\ UNCHANGED parsingPapers
                [] st = "failed" ->
                     /\ parseJobs' = [parseJobs EXCEPT ![id][k] =
                            [job EXCEPT !.polls = @ + 1, !.status = "failed"]]
                     /\ parsingPapers' = parsingPapers \ {id}
                     /\ UNCHANGED parsedPapers
    /\ UNCHANGED pageUnderJobs

PollReturnsKeepingFailed(id, st) ==
    /\ parseJobs[id] # <<>>
    /\ LET k == Len(parseJobs[id])
           job == parseJobs[id][k]
       IN  /\ job.status = "polling"
           /\ job.polls < MaxPollAttempts
           /\ CASE st = "processing" ->
                     /\ parseJobs' = [parseJobs EXCEPT ![id][k] =
                            [job EXCEPT !.polls = @ + 1,
                                        !.status = IF job.polls + 1 = MaxPollAttempts
                                                   THEN "exhausted" ELSE "polling"]]
                     /\ UNCHANGED <<parsingPapers, parsedPapers>>
                [] st = "completed" ->
                     /\ parseJobs' = [parseJobs EXCEPT ![id][k] =
                            [job EXCEPT !.polls = @ + 1, !.status = "completed"]]
                     /\ parsedPapers' = parsedPapers \cup {id}
                     /\ parsingPapers' = parsingPapers \ {id}
                [] st = "failed" ->
                     /\ parseJobs' = [parseJobs EXCEPT ![id][k] =
                            [job EXCEPT !.polls = @ + 1, !.status = "failed"]]
                     /\ UNCHANGED <<parsingPapers, parsedPapers>>
    /\ UNCHANGED pageUnderJobs

\* steps 4 and 5: one poll of the job of paper id returns; the loop stops on
\* completed, on failed, and silently after MaxPollAttempts polls
PollReturns(id, st) ==
    /\ parseJobs[id] # <<>>
    /\ LET k == Len(parseJobs[id])
           job == parseJobs[id][k]
       IN  /\ job.status = "polling"
           /\ job.polls < MaxPollAttempts
           /\ CASE st = "processing" ->
                     /\ parseJobs' = [parseJobs EXCEPT ![id][k] =
                            [job EXCEPT !.polls = @ + 1,
                                        !.status = IF job.polls + 1 = MaxPollAttempts
                                                   THEN "exhausted" ELSE "polling"]]
                     /\ UNCHANGED <<parsingPapers, parsedPapers>>
                [] st = "completed" ->
                     /\ parseJobs' = [parseJobs EXCEPT ![id][k] =
                            [job EXCEPT !.polls = @ + 1, !.status = "completed"]]
                     /\ parsedPapers' = parsedPapers \cup {id}
                     /\ parsingPapers' = parsingPapers \ {id}
                [] st = "failed" ->
                     /\ parseJobs' = [parseJobs EXCEPT ![id][k] =
                            [job EXCEPT !.polls = @ + 1, !.status = "failed"]]
                     /\ parsingPapers' = parsingPapers \ {id}
                     /\ UNCHANGED parsedPapers
    /\ UNCHANGED pageUnderJobs

ChatRefusedOnEmptyOnly == contextPapers = <<>>

\* a user message is refused when the context set is empty or a request is
\* in flight
ChatRefused == contextPapers = <<>> \/ chatPending > 0

\* the user sends a message: refused silently, or appended at once and sent
SendChatMessage ==
    /\ Len(chatMessages) < MaxChatMessages
    /\ IF ChatRefused
       THEN /\ lastSend' = Some("refused")
            /\ UNCHANGED <<chatMessages, chatPending>>
       ELSE /\ chatMessages' = Append(chatMessages, [role |-> "user", text |-> "message"])
            /\ chatPending' = chatPending + 1
            /\ lastSend' = Some("accepted")
    /\ UNCHANGED <<query, isLoading, loadingStatus, graphData, papers, categories,
                   expandedQueries, hoveredNode, maxCitations, dateFilter,
                   visibleClusters, pc, requests, contextPapers, jobVars, lastDrop,
                   buildVars>>

ChatOutcomes == {"response", "fallback"}

\* the chat call settles: one assistant message, the returned text on
\* success and the fixed fallback on failure
ChatReturns(outcome) ==
    /\ chatPending > 0
    /\ chatMessages' = Append(chatMessages, [role |-> "assistant", text |-> outcome])
    /\ chatPending' = chatPending - 1
    /\ UNCHANGED <<query, isLoading, loadingStatus, graphData, papers, categories,
                   expandedQueries, hoveredNode, maxCitations, dateFilter,
                   visibleClusters, pc, requests, contextPapers, lastSend, jobVars,
                   lastDrop, buildVars>>

NextSession ==
    \/ \E q \in QueryInputs : SetQuery(q)
    \/ HandleSearch
    \/ SearchRequested
    \/ \E result \in SessionResponses : SearchResolved(result)
    \/ SearchRejected
    \/ \E node \in {Null} \cup {Some(n) : n \in
            IF IsNull(graphData) THEN {} ELSE Range(Val(graphData).nodes)} :
          HandleNodeHover(node)
    \/ \E id \in PaperIds : DropOnDock(id)
    \/ \E id \in PaperIds : RemoveFromContext(id)
    \/ SendChatMessage
    \/ \E outcome \in ChatOutcomes : ChatReturns(outcome)

SpecSession == InitPage /\ [][NextSession]_vars

\* the page with one query and one response, the dock and the parse jobs
DockQuery == <<"a">>
DockResponse == Response("one", "recent", FALSE)

NextDock ==
    \/ SetQuery(DockQuery)
    \/ HandleSearch
    \/ SearchRequested
    \/ SearchResolved(DockResponse)
    \/ SearchRejected
    \/ \E id \in PaperIds : DropOnDock(id)
    \/ \E id \in PaperIds : RemoveFromContext(id)
    \/ \E id \in PaperIds, resp \in SubmitResponses : SubmitReturns(id, resp)
    \/ \E id \in PaperIds, st \in PollStatuses : PollReturns(id, st)

SpecDock == InitPage /\ [][NextDock]_vars

(***************************************************************************)
(* Properties of buildGraphData, under SpecBuild                            *)
(***************************************************************************)
NodeIdsOf(g) == {g.nodes[i].id : i \in DOMAIN g.nodes}
PaperOf(ps, id) == ps[CHOOSE i \in DOMAIN ps : ps[i].arxiv_id = id]
NodeOf(g, id) == g.nodes[CHOOSE i \in DOMAIN g.nodes : g.nodes[i].id = id]
Lists(ps, a, b) ==
    \E i \in DOMAIN ps :
        /\ ps[i].arxiv_id = a
        /\ ps[i].neighbors # <<>>
        /\ \E k \in DOMAIN ps[i].neighbors[1] : ps[i].neighbors[1][k] = b
Joins(l, a, b) ==
    \/ l.source.id = a /\ l.target.id = b
    \/ l.source.id = b /\ l.target.id = a
SimilarityJoining(g, a, b) ==
    {i \in DOMAIN g.links : ~g.links[i].isCitation /\ Joins(g.links[i], a, b)}
WithCoordinate(ps) == {ps[i].arxiv_id : i \in {j \in DOMAIN ps : ps[j].x # <<>> /\ ps[j].y # <<>>}}

\* C3: mutual neighbors that both have a node are joined by exactly one
\* similarity edge, and no unordered pair of ids is joined by two similarity
\* edges, whatever the order and repetition of the neighbor lists.
C3_SimilarityDedup ==
    bpc = "built" =>
        /\ \A a, b \in PaperIds : Cardinality(SimilarityJoining(ret, a, b)) <= 1
        /\ \A a, b \in WithCoordinate(args.papers) :
              Lists(args.papers, a, b) /\ Lists(args.papers, b, a)
                  => Cardinality(SimilarityJoining(ret, a, b)) = 1

\* papers 1 and 2 list each other and the edge 1-2 is there once
C3_Witness ==
    /\ bpc = "built"
    /\ args.papers[1].neighbors = <<<<2>>>>
    /\ args.papers[2].neighbors = <<<<1>>>>
    /\ {1, 2} \subseteq WithCoordinate(args.papers)
    /\ Cardinality(SimilarityJoining(ret, 1, 2)) = 1

\* C4: every link returned by buildGraphData has its source id and its target
\* id in the returned node set.
C4_LinkEndpointsAreNodes ==
    bpc = "built" =>
        \A i \in DOMAIN ret.links :
            /\ ret.links[i].source.id \in NodeIdsOf(ret)
            /\ ret.links[i].target.id \in NodeIdsOf(ret)

CitationPairs(links) ==
    LET IsCit(l) == l.isCitation
        cit == SelectSeq(links, IsCit)
    IN  [i \in DOMAIN cit |-> <<cit[i].source.id, cit[i].target.id>>]
ResolvableRecords(cls, ids) ==
    LET Ok(cl) == cl.source \in ids /\ cl.target \in ids
        ok == SelectSeq(cls, Ok)
    IN  [i \in DOMAIN ok |-> <<ok[i].source, ok[i].target>>]

\* C5: the citation edges are, in order, the citation records whose source
\* and target both have a node, one edge per record (a mutual pair gives two,
\* a repeated record gives two), and a pair that is also a similarity pair
\* keeps its similarity edge.
C5_CitationEdges ==
    bpc = "built" =>
        /\ CitationPairs(ret.links)
              = ResolvableRecords(args.citationLinks, WithCoordinate(args.papers))
        /\ \A a, b \in WithCoordinate(args.papers) :
              Lists(args.papers, a, b) => Cardinality(SimilarityJoining(ret, a, b)) = 1

\* 1 cites 2 and 2 cites 1, and 1 and 2 are mutual neighbors
C5_Witness ==
    /\ bpc = "built"
    /\ args.citationLinks = <<[source |-> 1, target |-> 2], [source |-> 2, target |-> 1]>>
    /\ Lists(args.papers, 1, 2)
    /\ CitationPairs(ret.links) = <<<<1, 2>>, <<2, 1>>>>
    /\ Cardinality(SimilarityJoining(ret, 1, 2)) = 1

PaperIdsWithBoth(ps) ==
    LET Both(p) == p.x # <<>> /\ p.y # <<>>
        kept == SelectSeq(ps, Both)
    IN  [i \in DOMAIN kept |-> kept[i].arxiv_id]

\* C6: the nodes are, in order, the papers whose x and y are both non-null,
\* one node per such paper, with the paper's id.
C6_NodesAreCoordinatePapers ==
    bpc = "built" =>
        [i \in DOMAIN ret.nodes |-> ret.nodes[i].id] = PaperIdsWithBoth(args.papers)

\* a paper at x = 0 is kept, a paper with only one coordinate is dropped
C6_Witness ==
    /\ bpc = "built"
    /\ args.papers[1].x = <<0>> /\ args.papers[1].y # <<>>
    /\ args.papers[2].x = <<>> /\ args.papers[2].y # <<>>
    /\ 1 \in NodeIdsOf(ret) /\ 2 \notin NodeIdsOf(ret)

NoCategoryEntry(cats, cluster) == \A i \in DOMAIN cats : <<cats[i].id>> # cluster

\* C8 as stated: a paper with a coordinate whose cluster has no category
\* entry yields a node with the color "#666" and the cluster name "Unknown".
C8_UnknownClusterAsStated ==
    bpc = "built" =>
        \A i \in DOMAIN args.papers :
            LET p == args.papers[i] IN
            (/\ p.x # <<>> /\ p.y # <<>>
             /\ p.cluster # <<>> /\ NoCategoryEntry(args.categories, p.cluster))
                => /\ p.arxiv_id \in NodeIdsOf(ret)
                   /\ NodeOf(ret, p.arxiv_id).color = "#666"
                   /\ NodeOf(ret, p.arxiv_id).cluster_name = "Unknown"

\* C8 amended: such a paper (its cluster id in no category entry, or null)
\* yields a node with the color "#666", and with the paper's own cluster_name
\* when that is a non-empty string, "Unknown" otherwise.
C8_UnknownClusterFallback ==
    bpc = "built" =>
        \A i \in DOMAIN args.papers :
            LET p == args.papers[i] IN
            (p.x # <<>> /\ p.y # <<>> /\ NoCategoryEntry(args.categories, p.cluster))
                => /\ p.arxiv_id \in NodeIdsOf(ret)
                   /\ NodeOf(ret, p.arxiv_id).color = "#666"
                   /\ NodeOf(ret, p.arxiv_id).cluster_name
                        = IF p.cluster_name \in {<<>>, <<"">>} THEN "Unknown"
                          ELSE p.cluster_name[1]

\* cluster NumClusters + 1 is in no table: one such paper names its cluster
\* itself, another does not
C8_Witness ==
    /\ bpc = "built"
    /\ args.papers[1].cluster = <<NumClusters + 1>> /\ args.papers[1].cluster_name = <<"own">>
    /\ args.papers[2].cluster = <<NumClusters + 1>> /\ args.papers[2].cluster_name = <<"">>
    /\ NodeOf(ret, 1).cluster_name = "own" /\ NodeOf(ret, 1).color = "#666"
    /\ NodeOf(ret, 2).cluster_name = "Unknown" /\ NodeOf(ret, 2).color = "#666"

RECURSIVE ScanPairs(_, _)
\* the (paper, neighbor) pairs with the neighbor in ids, in the order a scan
\* of the papers and of their neighbor lists meets them
ScanPairs(ps, ids) ==
    IF ps = <<>> THEN <<>>
    ELSE LET p == Head(ps)
             InIds(n) == n \in ids
             own == IF p.neighbors = <<>> THEN <<>>
                    ELSE LET ns == SelectSeq(p.neighbors[1], InIds)
                         IN  [k \in DOMAIN ns |-> <<p.arxiv_id, ns[k]>>]
         IN  own \o ScanPairs(Tail(ps), ids)
SamePair(pr, a, b) == (pr[1] = a /\ pr[2] = b) \/ (pr[1] = b /\ pr[2] = a)
\* the position in the scan at which the pair of link l is first met
FirstMet(scan, l) ==
    CHOOSE k \in DOMAIN scan :
        /\ SamePair(scan[k], l.source.id, l.target.id)
        /\ \A j \in DOMAIN scan : SamePair(scan[j], l.source.id, l.target.id) => k <= j

C29_NoSelfLoop ==
    bpc = "built" =>
        \A i \in DOMAIN ret.links :
            ~ret.links[i].isCitation => ret.links[i].source.id # ret.links[i].target.id

(***************************************************************************)
(* Properties of the filtered view and of the search, under Spec and        *)
(* SpecSession                                                              *)
(***************************************************************************)
\* an endpoint is a visible node: a raw id is the id of a node of the view,
\* a node object is one of the nodes of the view
EndIsVisible(e, view) ==
    IF e.kind = "string" THEN \E i \in DOMAIN view.nodes : view.nodes[i].id = e.id
    ELSE \E i \in DOMAIN view.nodes : view.nodes[i] = e.node

\* C1: whenever there is a graph, the visible links are exactly the links of
\* the full graph whose two endpoints are visible nodes, raw or resolved.
C1_EdgeVisibility ==
    ~IsNull(graphData) =>
        LET view == Val(filteredGraphData)
            BothVisible(l) == EndIsVisible(l.source, view) /\ EndIsVisible(l.target, view)
        IN  view.links = SelectSeq(Val(graphData).links, BothVisible)

\* a link whose endpoints are resolved node objects, one of them visible and
\* the other hidden by its cluster, is not among the visible links
C1_Witness ==
    /\ ~IsNull(graphData)
    /\ \E i \in DOMAIN Val(graphData).links :
          LET l == Val(graphData).links[i]
              view == Val(filteredGraphData)
          IN  /\ l.source.kind = "node" /\ l.target.kind = "node"
              /\ EndIsVisible(l.source, view)
              /\ ~EndIsVisible(l.target, view)
              /\ \A c \in visibleClusters : <<c>> # l.target.node.cluster
              /\ l \notin Range(view.links)

CutoffYear(df) == CASE df = "1y" -> Now - 1 [] df = "2y" -> Now - 2 [] df = "5y" -> Now - 5
PublishedOf(id) == PaperOf(papers, id).published
IsShown(n) == \E i \in DOMAIN Val(filteredGraphData).nodes : Val(filteredGraphData).nodes[i] = n

\* C2 as stated: a node is visible exactly when its cluster is in the visible
\* set and (the date filter is "all" or its paper's published date is on or
\* after the cutoff).
C2_NodeVisibilityAsStated ==
    ~IsNull(graphData) =>
        \A i \in DOMAIN Val(graphData).nodes :
            LET n == Val(graphData).nodes[i] IN
            IsShown(n) <=>
                /\ \E c \in visibleClusters : <<c>> = n.cluster
                /\ \/ dateFilter = "all"
                   \/ /\ PublishedOf(n.id) \in DOMAIN DateTable
                      /\ DateTable[PublishedOf(n.id)] >= CutoffYear(dateFilter)

\* C2 amended: a node is visible exactly when its cluster is in the visible
\* set and (the date filter is "all", or its paper's published string does
\* not parse to a date, or the date it parses to is on or after the cutoff).
C2_NodeVisibility ==
    ~IsNull(graphData) =>
        \A i \in DOMAIN Val(graphData).nodes :
            LET n == Val(graphData).nodes[i] IN
            IsShown(n) <=>
                /\ \E c \in visibleClusters : <<c>> = n.cluster
                /\ \/ dateFilter = "all"
                   \/ PublishedOf(n.id) \notin DOMAIN DateTable
                   \/ DateTable[PublishedOf(n.id)] >= CutoffYear(dateFilter)

\* under the two-year filter: a paper published exactly at the cutoff and a
\* paper with an unparsable date are shown, an older paper of a visible
\* cluster is hidden
C2_Witness ==
    /\ ~IsNull(graphData)
    /\ dateFilter = "2y"
    /\ \E i, j \in DOMAIN Val(graphData).nodes :
          LET n == Val(graphData).nodes[i]
              m == Val(graphData).nodes[j]
          IN  /\ PublishedOf(n.id) \in {"", "2024"} /\ IsShown(n)
              /\ PublishedOf(m.id) = "2020" /\ ~IsShown(m)
              /\ \E c \in visibleClusters : <<c>> = m.cluster

\* C9: a change of the visible-cluster set or of the date filter by the
\* filter controls leaves the full graph, nodes and links, as it was.
C9_FilterLeavesGraph ==
    [][(/\ pc = "idle" /\ pc' = "idle"
        /\ (visibleClusters' # visibleClusters \/ dateFilter' # dateFilter))
          => graphData' = graphData]_vars

\* both filters have been changed, the view has lost nodes and links, and the
\* full graph still has one node for each paper of the response
C9_Witness ==
    /\ ~IsNull(graphData)
    /\ dateFilter # "all"
    /\ visibleClusters # {categories[i].id : i \in DOMAIN categories}
    /\ Len(Val(filteredGraphData).nodes) < Len(Val(graphData).nodes)
    /\ Len(Val(filteredGraphData).links) < Len(Val(graphData).links)
    /\ Len(Val(graphData).nodes) = NumPapers

\* C10: while a new search is in flight the graph, papers, categories,
\* expanded queries, context set, chat transcript and date filter are
\* cleared, and nothing of the previous search is on screen.
C10_SearchClearsSession ==
    pc \in {"sleeping", "searching"} =>
        /\ IsNull(graphData) /\ papers = <<>> /\ categories = <<>>
        /\ expandedQueries = <<>> /\ dateFilter = "all"
        /\ contextPapers = <<>> /\ chatMessages = <<>>
        /\ IsNull(hoveredNode)

\* C11: once an empty response has been handled there is no graph, the papers
\* and categories are empty, and the status "No papers found" is on screen.
C11_EmptyResultSurfaced ==
    loadingStatus = "No papers found" =>
        /\ IsNull(graphData) /\ papers = <<>> /\ categories = <<>>
        /\ StatusShown = Some("No papers found")

\* C12: once the search call has thrown, handleSearch has finished, it has
\* made exactly one search request, and the status "Search failed" is on
\* screen.
C12_SearchFailedSurfaced ==
    loadingStatus = "Search failed" =>
        /\ pc = "idle" /\ requests = 1
        /\ StatusShown = Some("Search failed")

CategoryIds(cats) == {cats[i].id : i \in DOMAIN cats}
SomeResponse == Response("split", "spread", TRUE)

\* C13: whenever handleSearch is not running (at the start, after a failure,
\* after an empty or a non-empty result) the loading flag is false and a
\* search can be started with any non-blank query; the timer of a started
\* search can fire; and every search whose call settles leaves the loading
\* flag false.
C13_SessionNotStuck ==
    /\ [](pc = "idle" => /\ ~isLoading
                         /\ (Trim(query) # <<>> => ENABLED HandleSearch))
    /\ [](pc = "sleeping" => ENABLED SearchRequested)
    /\ (isLoading ~> ~isLoading)

\* a search has failed, the loading flag is false and the next search can start
C13_Witness ==
    /\ loadingStatus \in {"Search failed", "No papers found"}
    /\ ~isLoading
    /\ Trim(query) # <<>>
    /\ ENABLED HandleSearch

\* C14: the step that ends a search with papers leaves the visible-cluster
\* set equal to the ids of the returned categories, the date filter "all",
\* and the graph built from that response.
C14_SuccessfulSearch ==
    [][(pc = "searching" /\ ~IsNull(graphData')) =>
          /\ dateFilter' = "all"
          /\ \E result \in Responses :
                /\ Len(result.papers) > 0
                /\ papers' = result.papers
                /\ categories' = result.categories
                /\ maxCitations' = result.max_citations
                /\ visibleClusters' = CategoryIds(result.categories)
                /\ graphData' = Some(buildGraphData(result.papers, result.categories,
                                                     result.citation_links,
                                                     result.max_citations))]_vars

\* the state right after a search with papers: the library has resolved no
\* link yet
C14_Witness ==
    /\ pc = "idle" /\ requests = 1
    /\ graphData = Some(buildGraphData(SomeResponse.papers, SomeResponse.categories,
                                       SomeResponse.citation_links,
                                       SomeResponse.max_citations))
    /\ visibleClusters = 1..NumClusters
    /\ dateFilter = "all"

\* g is h up to the resolution of link endpoints by the graph library
SameGraph(g, h) ==
    /\ g.nodes = h.nodes
    /\ Len(g.links) = Len(h.links)
    /\ \A i \in DOMAIN g.links :
          /\ EndId(g.links[i].source) = EndId(h.links[i].source)
          /\ EndId(g.links[i].target) = EndId(h.links[i].target)
          /\ g.links[i].isCitation = h.links[i].isCitation
          /\ \A e \in {g.links[i].source, g.links[i].target} :
                e.kind = "node" => e.node \in Range(h.nodes)

\* C15: the papers, categories and graph of the page are either all empty,
\* or exactly the papers, the categories and the graph of one response, and
\* they are empty for as long as a search is running.
C15_NoMerge ==
    /\ pc # "idle" => IsNull(graphData) /\ papers = <<>> /\ categories = <<>>
    /\ \/ IsNull(graphData) /\ papers = <<>> /\ categories = <<>>
       \/ \E result \in Responses :
             /\ Len(result.papers) > 0
             /\ papers = result.papers
             /\ categories = result.categories
             /\ SameGraph(Val(graphData),
                          buildGraphData(result.papers, result.categories,
                                         result.citation_links, result.max_citations))

\* a later search is running after an earlier one gave a graph (a cluster
\* was switched off in it), and nothing of the earlier result is held
C15_Witness ==
    /\ pc = "searching"
    /\ visibleClusters # {} /\ visibleClusters # 1..NumClusters
    /\ IsNull(graphData) /\ papers = <<>> /\ categories = <<>>

\* C16: whenever there is a visible subgraph, the nodes of the graph are the
\* ones built from the papers, categories and maximum held with it, and the
\* visible clusters are clusters of these categories; and the step that
\* brings a graph brings its papers, its categories, the full visible-cluster
\* set and the date filter "all" with it, while no other step changes the
\* papers, the categories or the nodes under a graph.
C16_NoHalfUpdate ==
    /\ [](~IsNull(filteredGraphData) =>
            /\ Val(graphData).nodes = BuildNodes(papers, categories, maxCitations)
            /\ visibleClusters \subseteq CategoryIds(categories)
            /\ Val(filteredGraphData) = FilterGraph(Val(graphData), visibleClusters,
                                                    dateFilterCutoff(dateFilter), papers))
    /\ [][/\ (IsNull(graphData) /\ ~IsNull(graphData')) =>
                /\ Val(graphData').nodes = BuildNodes(papers', categories', maxCitations')
                /\ visibleClusters' = CategoryIds(categories')
                /\ dateFilter' = "all"
          /\ (~IsNull(graphData) /\ ~IsNull(graphData')) =>
                /\ papers' = papers /\ categories' = categories
                /\ Val(graphData').nodes = Val(graphData).nodes]_vars

\* a graph is shown with the papers of its response, one of them without a
\* node, all clusters of its categories visible and the date filter "all"
C16_Witness ==
    /\ GraphShown
    /\ requests = 1
    /\ papers = Response("one", "recent", FALSE).papers
    /\ visibleClusters = CategoryIds(categories)
    /\ dateFilter = "all"
    /\ Len(Val(filteredGraphData).nodes) = NumPapers - 1

\* C25: handleSearch runs exactly while the loading flag is set; a search
\* starts only from rest, with the flag clear and a non-blank query; a
\* request is made only by the one running handleSearch, once.
C25_OneSearchInFlight ==
    /\ [](isLoading <=> pc # "idle")
    /\ [](requests <= 1 /\ (pc = "searching" => requests = 1)
                        /\ (pc = "sleeping" => requests = 0))
    /\ [][(pc' = "sleeping" /\ (pc # "sleeping" \/ requests' # requests))
             => (pc = "idle" /\ ~isLoading /\ Trim(query) # <<>>)]_vars
    /\ [][requests' > requests => (pc = "sleeping" /\ pc' = "searching")]_vars

\* a request is in flight and handleSearch cannot start another
C25_Witness ==
    /\ pc = "searching" /\ isLoading /\ requests = 1
    /\ ~ENABLED HandleSearch

\* C26 as stated: the visible clusters are always ids of the categories held.
C26_VisibleWithinCategoriesAsStated == visibleClusters \subseteq CategoryIds(categories)

\* C26 amended: whenever the page holds a graph, the visible clusters are ids
\* of the categories held.
C26_VisibleWithinCategories ==
    ~IsNull(graphData) => visibleClusters \subseteq CategoryIds(categories)

\* a graph whose category table lists cluster 1 only, with cluster 1 visible
C26_Witness ==
    /\ ~IsNull(graphData)
    /\ CategoryIds(categories) = {1}
    /\ visibleClusters = {1}
    /\ NumClusters > 1

\* C27: right after the step that ends a search with papers, the visible
\* subgraph is the full graph.
C27_AllVisibleAfterSearch ==
    [][(pc = "searching" /\ ~IsNull(graphData'))
          => filteredGraphData' = graphData']_vars

SymmetricDifference(S, T) == (S \ T) \cup (T \ S)

\* C28: a step of the cluster checkboxes changes the membership of exactly
\* one cluster, a cluster of the categories held, and leaves the date filter,
\* the papers and the full graph as they were; and toggling any cluster twice
\* gives the visible-cluster set and the visible subgraph of before.
C28_ToggleFlipsOne ==
    /\ [][(pc = "idle" /\ pc' = "idle" /\ visibleClusters' # visibleClusters)
             => /\ \E id \in CategoryIds(categories) :
                      SymmetricDifference(visibleClusters, visibleClusters') = {id}
                /\ dateFilter' = dateFilter /\ papers' = papers
                /\ graphData' = graphData]_vars
    /\ [](~IsNull(graphData) =>
            \A id \in CategoryIds(categories) :
                /\ Toggled(Toggled(visibleClusters, id), id) = visibleClusters
                /\ Toggled(visibleClusters, id) # visibleClusters
                /\ FilterGraph(Val(graphData), Toggled(Toggled(visibleClusters, id), id),
                               dateFilterCutoff(dateFilter), papers)
                      = Val(filteredGraphData))

\* cluster 2 has been switched off: its nodes have left the view, the full
\* graph has kept them
C28_Witness ==
    /\ ~IsNull(graphData)
    /\ CategoryIds(categories) = 1..NumClusters
    /\ visibleClusters = (1..NumClusters) \ {2}
    /\ Len(Val(filteredGraphData).nodes) < Len(Val(graphData).nodes)
    /\ Len(Val(graphData).nodes) = NumPapers

\* C30: once a search has failed or has returned no papers, there is no
\* graph and the papers, categories and expanded queries are empty.
C30_NoRestoreAfterFailure ==
    loadingStatus \in {"Search failed", "No papers found"} =>
        /\ IsNull(graphData) /\ papers = <<>> /\ categories = <<>>
        /\ expandedQueries = <<>>

\* a search has failed after an earlier one had given a graph (its maximum
\* citation count and its visible clusters are still held)
C30_Witness ==
    /\ loadingStatus = "Search failed" /\ pc = "idle"
    /\ maxCitations > 0 /\ visibleClusters # {}
    /\ IsNull(graphData) /\ papers = <<>>

(***************************************************************************)
(* Properties of the dock and of the parse jobs, under SpecDock             *)
(***************************************************************************)
Occurrences(ctx, id) == {i \in DOMAIN ctx : ctx[i] = id}
DuplicateDrop == Some([added |-> FALSE, submitted |-> FALSE])

UserMessages(msgs) == Len(SelectSeq(msgs, LAMBDA m : m.role = "user"))

====
